---- MODULE Spec2Model ----
(***************************************************************************)
(* A model of the Globe class of globe.js (src/js/globe.js, the variant    *)
(* with circle markers): the projection state (rotation, scale), the       *)
(* rotation interval timer and the resume timeout, the drag / zoom /       *)
(* timer handlers, the rendered attributes of the paths and the markers,   *)
(* and the asynchronous initialisation of the static country data.         *)
(*                                                                         *)
(* The d3 library is modelled by what the class uses of it: the rotation   *)
(* and the orthographic projection of d3-geo, timers that fire when their  *)
(* delay has passed, the gestures of d3-drag and the constrained zoom      *)
(* factor of d3-zoom.                                                      *)
(*                                                                         *)
(* Units.  Angles are integer degrees.  Time is integer milliseconds.      *)
(* A scale s is held as 8*s (scale8), so that size/2 * k is an integer for *)
(* every zoom factor k that is a multiple of 1/4; a zoom factor k is held  *)
(* as 4*k (k4).  A rotation speed v (degrees per ms) is held as 1000*v.    *)
(* Screen coordinates are held as 8*x.  The inputs are chosen so that      *)
(* every angle the model reaches is a multiple of 90 degrees.               *)
(*                                                                         *)
(* Floating point.  JavaScript computes in IEEE doubles, where the double   *)
(* nearest pi/2 is pi/2 - Eps, Eps ~ 6.1e-17, and the double of n * 90      *)
(* degrees in radians is n * (pi/2 - Eps).  The positions of the markers    *)
(* are held exactly (the error is far below a pixel); the test that hides   *)
(* a marker compares a computed distance with Math.PI / 2, so the distance  *)
(* is computed to first order in Eps, as the doubles give it.               *)
(***************************************************************************)
EXTENDS Integers, Sequences, FiniteSets, TLC

\* null: no timer id, delay, speed or time of the model is negative.
NULL == -1

\* undefined, for the static country data (which are sequences).
UNDEFINED == <<>>

\* ---------------------------------------------------------------- bounds

\* An interval timer is followed for this long (ms) after its start.
MaxElapsed == 5000

\* How many d3 timers are alive at once: the running intervals, the pending
\* resume timeouts, and the interval each of these will create.
MaxTimers == 2

\* How many pointers can be dragging at once (d3.drag runs one gesture per
\* pointer: the mouse, or each touch).
MaxGestures == 1

\* How many globes the page makes; it calls initialize() once on each. The
\* static country data are shared; the model follows the first globe.
MaxGlobes == 2

\* How many markers are added.
MaxMarkers == 1

\* How many countries the country data hold.
NumCountries == 1

\* ---------------------------------------------------------------- inputs

\* constructor(svgElSelector, size)
Sizes == {200}

\* registerRotation(delay, speed): delay in ms, speed in degrees per second
\* (1000 * degrees per ms)
RotationArgs == {<<2500, 36>>, <<5000, 72>>}

\* How far the clock moves in one step.
TimeSteps == {2500}

\* event.x, event.y of a drag event
DragXY == {0, 75000}

\* The zoom factor a gesture asks for, times 4, before d3.zoom constrains it.
RawK4 == {1, 400}

\* set rotation(rot)
Rotations == {<<450, 90, 90>>, <<90, 0>>}

\* addPoint(coord, tag): [lon, lat]
Coordinates == {<<0, 0>>, <<90, 0>>}

\* ------------------------------------------------------------ arithmetic

\* JavaScript's a % n: the remainder has the sign of the dividend.
JsRem(a, n) == IF a >= 0 THEN a % n ELSE -((-a) % n)

\* a / b, for the inputs of the model, where b divides a.
ExactDiv(a, b) == IF a >= 0 THEN a \div b ELSE -((-a) \div b)

SetMin(S) == CHOOSE x \in S : \A y \in S : x <= y

\* Math.cos and Math.sin of an angle in degrees that is a multiple of 90.
CosDeg(a) ==
    CASE a % 360 = 0 -> 1
      [] a % 360 = 90 -> 0
      [] a % 360 = 180 -> -1
      [] a % 360 = 270 -> 0

SinDeg(a) == CosDeg(a + 270)

\* ------------------------------------------------------- floating point

\* A double m + k * Eps is held as <<m, k>>, m and k integers; products and
\* sums are taken to first order in Eps.
DblMul(a, b) == <<a[1] * b[1], a[1] * b[2] + a[2] * b[1]>>

DblAdd(a, b) == <<a[1] + b[1], a[2] + b[2]>>

DblNeg(a) == <<-a[1], -a[2]>>

\* The sign of a double: -1, 0 or 1.
DblSign(a) ==
    CASE a[1] > 0 -> 1
      [] a[1] < 0 -> -1
      [] a[1] = 0 /\ a[2] > 0 -> 1
      [] a[1] = 0 /\ a[2] < 0 -> -1
      [] OTHER -> 0

\* A double angle is held as <<d, r>>, d a multiple of 90 degrees: the
\* double of d degrees in radians, n * (pi/2 - Eps) for n = d / 90, plus
\* r * Eps.  Math.cos and Math.sin of it, to first order in Eps:
\*   cos(n pi/2 + (r - n) Eps) = cos(n pi/2) - (r - n) Eps sin(n pi/2).
FlCos(a) == <<CosDeg(a[1]), (ExactDiv(a[1], 90) - a[2]) * SinDeg(a[1])>>

FlSin(a) == <<SinDeg(a[1]), (a[2] - ExactDiv(a[1], 90)) * CosDeg(a[1])>>

\* ------------------------------------------------ the projection (d3-geo)

\* projection.rotate(r): each angle is stored modulo 360; a rotation given
\* with two angles has roll 0.
rotate(r) ==
    <<JsRem(r[1], 360), JsRem(r[2], 360),
      IF Len(r) > 2 THEN JsRem(r[3], 360) ELSE 0>>

\* projection(coordinates): the orthographic projection of [lon, lat] under
\* the rotation rot = [lambda, phi, gamma], the scale and the translation
\* [size/2, size/2]; the result is 8 * [x, y].
projection(coordinates, rot, scale8, size) ==
    LET l1 == coordinates[1] + rot[1]
        x  == CosDeg(l1) * CosDeg(coordinates[2])
        y  == SinDeg(l1) * CosDeg(coordinates[2])
        z  == SinDeg(coordinates[2])
        k  == z * CosDeg(rot[2]) + x * SinDeg(rot[2])
        y2 == y * CosDeg(rot[3]) - k * SinDeg(rot[3])
        z2 == k * CosDeg(rot[3]) + y * SinDeg(rot[3])
    IN  <<4 * size + scale8 * y2, 4 * size - scale8 * z2>>

\* projection.invert(center) for center = [size/2, size/2], the translation
\* point: the geographic point [lon, lat] drawn at the centre of the view,
\* lon in degrees and lat as a double angle.  The rotation is inverted from
\* the point x = 1, y = z = +0:
\*   lon = atan2(y cos(gamma) + z sin(gamma), x cos(phi) + k sin(phi)),
\*   lat = asin(k cos(phi) - x sin(phi)),   k = z cos(gamma) - y sin(gamma),
\* then lon -= lambda, brought back into [-180, 180] by whole turns
\* (Math.round(lon / 360)).  atan2 of a zero and a negative number is 180
\* or -180 with the sign of the zero, and the zero is negative when both of
\* its terms are.
invertCenter(rot) ==
    LET cosPhi   == FlCos(<<rot[2], 0>>)
        sinPhi   == FlSin(<<rot[2], 0>>)
        cosGamma == FlCos(<<rot[3], 0>>)
        sinGamma == FlSin(<<rot[3], 0>>)
        minusZero == DblSign(cosGamma) < 0 /\ DblSign(sinGamma) < 0
        l0 == IF DblSign(cosPhi) > 0 THEN 0
              ELSE IF minusZero THEN -180 ELSE 180
        l1 == l0 - rot[1]
        l2 == IF l1 > 180 \/ l1 < -180
              THEN l1 - ((2 * l1 + 360) \div 720) * 360
              ELSE l1
        s  == DblNeg(sinPhi)
        lat == IF s[1] # 0 THEN <<90 * s[1], 0>> ELSE <<0, s[2]>>
    IN  <<l2, lat>>

\* d3.geoDistance(a, b) for a = [lon, lat] in degrees and b a centre of the
\* view: atan2(sqrt(x^2 + y^2), z) with
\*   z = sin(lat a) sin(lat b) + cos(lat a) cos(lat b) cos(|lon b - lon a|).
\* The result is <<d, k>>: d degrees (0, 90 or 180) plus k * Eps radians,
\* k counted only at 90 degrees, where atan2(1, z) = pi/2 - z.
geoDistance(a, b) ==
    LET sinPhi0 == FlSin(<<a[2], 0>>)
        cosPhi0 == FlCos(<<a[2], 0>>)
        sinPhi  == FlSin(b[2])
        cosPhi  == FlCos(b[2])
        delta   == IF b[1] - a[1] >= 0 THEN b[1] - a[1] ELSE a[1] - b[1]
        cosDelta == FlCos(<<delta, 0>>)
        z == DblAdd(DblMul(sinPhi0, sinPhi),
                    DblMul(DblMul(cosPhi0, cosPhi), cosDelta))
    IN  CASE z[1] = 1 -> <<0, 0>>
          [] z[1] = 0 -> <<90, -z[2]>>
          [] z[1] = -1 -> <<180, 0>>

\* dist > Math.PI / 2, for a distance <<d, k>>.  Math.PI / 2 is the double
\* pi/2 - Eps; the doubles around it are 3.6 Eps apart, so pi/2 + k Eps is
\* rounded to Math.PI / 2 itself when k <= 0 and to a larger double when
\* k >= 1.
GreaterThanHalfPi(dist) == dist[1] > 90 \/ (dist[1] = 90 /\ dist[2] >= 1)

\* d3.geoPath().projection(projection): the path data of a geometry are a
\* function of the projection's rotation and scale.
_path(rot, scale8) == <<rot, scale8>>

\* 8 * projection.scale() as the constructor sets it: size / 2.
InitialScale8(size) == 4 * size

\* ------------------------------------------------------------- constants

\* 100 * Globe._ROTATION_SENSITIVITY
_ROTATION_SENSITIVITY == 9

_ROTATION_RESUME_TIMEOUT == 10000

\* 4 * the bounds of d3.zoom().scaleExtent([0.75, 50])
ScaleExtentMin4 == 3

ScaleExtentMax4 == 200

\* ----------------------------------------------------------------- state

VARIABLES
    _COUNTRIES,           \* Globe._COUNTRIES: UNDEFINED or the features
    _COUNTRY_BY_ID,       \* Globe._COUNTRY_BY_ID: UNDEFINED or the names
    fetches,              \* how many times the static data were fetched
    assigns,              \* how many times the static data were assigned
    initPc,               \* initialize() of each globe: "idle", "fetching"
                          \*   (in _initializeStaticAsync's await),
                          \*   "resuming" (its own await is settled), "done"
    microtasks,           \* the promise jobs queued: the globes whose
                          \*   initialize() is to resume, in order
    _size,                \* this._size
    rotation,             \* this._projection.rotate()
    scale8,               \* 8 * this._projection.scale()
    pathD,                \* the "d" attribute of each path of this._map
    _locations,           \* this._locations
    markers,              \* cx, cy and fill of each marker's circle
    _rotationTimer,       \* this._rotationTimer: a timer id or NULL
    _rotationDelay,       \* this._rotationDelay
    _rotationSpeed,       \* this._rotationSpeed
    _tprev,               \* this._tprev
    _rotationResumeTimer, \* this._rotationResumeTimer: a timer id or NULL
    intervals,            \* the running d3.interval timers, by id
    timeouts,             \* the pending d3.timeout timers, by id: ms left
    activeDrags,          \* how many drag gestures are between start and end
    lastOp,               \* the handler that ran last
    lastK4,               \* 4 * event.transform.k of the last zoom event
    sinceEnd,             \* ms since the last drag end; NULL after a drag start
    regDelay,             \* the delay of the last registerRotation call made
    regSpeed,             \*   by the page, and its speed
    stoppedByDrag         \* a drag start has stopped the rotation timer

staticVars == <<_COUNTRIES, _COUNTRY_BY_ID, fetches, assigns, initPc,
                microtasks>>

projVars == <<rotation, scale8>>

renderVars == <<pathD, markers>>

timerVars == <<_rotationTimer, _rotationDelay, _rotationSpeed, _tprev,
               _rotationResumeTimer, intervals, timeouts>>

ghostRegVars == <<regDelay, regSpeed, stoppedByDrag>>

vars == <<staticVars, _size, projVars, renderVars, _locations, timerVars,
          activeDrags, lastOp, lastK4, sinceEnd, ghostRegVars>>

\* f without the key k
Without(f, k) == [i \in DOMAIN f \ {k} |-> f[i]]

\* constructor(svgElSelector, size)
Init ==
    /\ _COUNTRIES = UNDEFINED
    /\ _COUNTRY_BY_ID = UNDEFINED
    /\ fetches = 0
    /\ assigns = 0
    /\ initPc = [c \in 1..MaxGlobes |-> "idle"]
    /\ microtasks = <<>>
    /\ _size \in Sizes
    /\ rotation = <<0, 0, 0>>
    /\ scale8 = InitialScale8(_size)
    /\ pathD = <<>>
    /\ _locations = <<>>
    /\ markers = <<>>
    /\ _rotationTimer = NULL
    /\ _rotationDelay = NULL
    /\ _rotationSpeed = NULL
    /\ _tprev = NULL
    /\ _rotationResumeTimer = NULL
    /\ intervals = <<>>
    /\ timeouts = <<>>
    /\ activeDrags = 0
    /\ lastOp = "constructor"
    /\ lastK4 = 4
    /\ sinceEnd = NULL
    /\ regDelay = NULL
    /\ regSpeed = NULL
    /\ stoppedByDrag = FALSE

\* ------------------------------------------------------------- rendering

\* The fill _drawMarkers gives the circle of a marker at coordinates:
\* dist > Math.PI / 2 ? 'none' : 'tomato'.
markerFill(coordinates, rot) ==
    LET centerXY == invertCenter(rot)
        dist == geoDistance(coordinates, centerXY)
    IN  IF GreaterThanHalfPi(dist) THEN "none" ELSE "tomato"

\* A marker element as addPoint appends it, before _drawMarkers.
newMarker == [cx |-> NULL, cy |-> NULL, fill |-> "unset"]

\* _drawMarkers(): the position and the fill of the circle of every marker
\* element, from the location bound to it.
_drawMarkers(marks, locations, rot, sc8, size) ==
    [i \in DOMAIN marks |->
        [cx   |-> projection(locations[i], rot, sc8, size)[1],
         cy   |-> projection(locations[i], rot, sc8, size)[2],
         fill |-> markerFill(locations[i], rot)]]

\* this._map.selectAll("path").attr("d", this._path)
redrawPaths(paths, rot, sc8) == [e \in DOMAIN paths |-> _path(rot, sc8)]

\* A _recalculate() that redraws the paths and leaves the markers.
_recalculatePathsOnly(paths, marks, locations, rot, sc8, size) ==
    <<redrawPaths(paths, rot, sc8), marks>>

\* _recalculate(): <<the paths, the markers>> after it.
_recalculate(paths, marks, locations, rot, sc8, size) ==
    <<redrawPaths(paths, rot, sc8),
      _drawMarkers(marks, locations, rot, sc8, size)>>

\* -------------------------------------------------------- initialisation

NoTimerChange == UNCHANGED timerVars

NoGhostChange == UNCHANGED <<lastK4, sinceEnd, ghostRegVars>>

\* _drawWater() and _drawAllCountries(): one more water path, and a land
\* path for every country that has none yet (the enter selection).
drawWaterAndCountries(paths, countries, rot, sc8) ==
    LET nWater == Cardinality({e \in DOMAIN paths : e[1] = "water"})
        features == {countries[j] : j \in DOMAIN countries}
        new == {<<"water", nWater + 1>>}
               \cup {e \in {"land"} \X features : e \notin DOMAIN paths}
    IN  [e \in DOMAIN paths \cup new |->
            IF e \in DOMAIN paths THEN paths[e] ELSE _path(rot, sc8)]

\* The paths of the globe followed after initialize() of globe c has drawn.
drawnBy(c, paths, countries, rot, sc8) ==
    IF c = 1 THEN drawWaterAndCountries(paths, countries, rot, sc8) ELSE paths

\* A handler, a timer callback or a call by the page runs as a task: the
\* promise jobs queued are all run before it starts.
NoJobQueued == microtasks = <<>>

\* d3 calls its timers one after the other in one task (a flush).  A timer
\* that is due at once was created by a callback of the flush (the resume
\* timeout, with a null delay) and is called in that same flush, before any
\* other task starts.
FlushDone == \A id \in DOMAIN intervals : intervals[id].due > 0

\* initialize(), up to its await: with the static data missing it calls
\* _initializeStaticAsync(), which starts the fetches and waits for them;
\* else it draws.
InitializeCall(c) ==
    /\ NoJobQueued
    /\ FlushDone
    /\ initPc[c] = "idle"
    /\ IF _COUNTRIES = UNDEFINED \/ _COUNTRY_BY_ID = UNDEFINED
       THEN /\ fetches' = fetches + 1
            /\ initPc' = [initPc EXCEPT ![c] = "fetching"]
            /\ UNCHANGED pathD
       ELSE /\ initPc' = [initPc EXCEPT ![c] = "done"]
            /\ pathD' = drawnBy(c, pathD, _COUNTRIES, rotation, scale8)
            /\ UNCHANGED fetches
    /\ lastOp' = "initialize"
    /\ UNCHANGED <<_COUNTRIES, _COUNTRY_BY_ID, assigns, microtasks, _size,
                   projVars, markers, _locations, activeDrags>>
    /\ NoTimerChange
    /\ NoGhostChange

\* _initializeStaticAsync() of the call of globe c, after its await: the
\* fetches are done, it assigns the static data and returns, which queues
\* the rest of initialize().  The fetches of two calls can be done in one
\* task, so this job can run with the rest of an earlier call still queued.
_initializeStaticAsync(c) ==
    /\ FlushDone
    /\ initPc[c] = "fetching"
    /\ _COUNTRIES' = [j \in 1..NumCountries |-> j]
    /\ _COUNTRY_BY_ID' = [j \in 1..NumCountries |-> j]
    /\ assigns' = assigns + 1
    /\ initPc' = [initPc EXCEPT ![c] = "resuming"]
    /\ microtasks' = Append(microtasks, c)
    /\ lastOp' = "initializeStatic"
    /\ UNCHANGED <<fetches, _size, projVars, renderVars, _locations,
                   activeDrags>>
    /\ NoTimerChange
    /\ NoGhostChange

\* initialize() of globe c, after its await: it draws the water and the
\* countries.
InitializeResume(c) ==
    /\ microtasks # <<>>
    /\ Head(microtasks) = c
    /\ initPc' = [initPc EXCEPT ![c] = "done"]
    /\ microtasks' = Tail(microtasks)
    /\ pathD' = drawnBy(c, pathD, _COUNTRIES, rotation, scale8)
    /\ lastOp' = "initialize"
    /\ UNCHANGED <<_COUNTRIES, _COUNTRY_BY_ID, fetches, assigns, _size,
                   projVars, markers, _locations, activeDrags>>
    /\ NoTimerChange
    /\ NoGhostChange

\* ------------------------------------------------------ markers, rotation

\* addPoint(coord, tag)
AddPoint(coord) ==
    /\ NoJobQueued
    /\ FlushDone
    /\ Len(_locations) < MaxMarkers
    /\ _locations' = Append(_locations, coord)
    /\ markers' = _drawMarkers(Append(markers, newMarker), _locations',
                               rotation, scale8, _size)
    /\ lastOp' = "addPoint"
    /\ UNCHANGED <<staticVars, _size, projVars, pathD, activeDrags>>
    /\ NoTimerChange
    /\ NoGhostChange

\* set rotation(rot)
SetRotation(rot) ==
    /\ NoJobQueued
    /\ FlushDone
    /\ rotation' = rotate(rot)
    /\ lastOp' = "setRotation"
    /\ UNCHANGED <<staticVars, _size, scale8, renderVars, _locations,
                   activeDrags>>
    /\ NoTimerChange
    /\ NoGhostChange

\* ---------------------------------------------------------------- timers

\* The period of a d3.interval: its delay, or every frame when the delay
\* is null (the clock's smallest step stands for a frame).
Period(delay) == IF delay = NULL THEN SetMin(TimeSteps) ELSE delay

\* Timers that can still be created: every pending resume timeout will
\* create one interval when it fires.
Budget ==
    MaxTimers - Cardinality(DOMAIN intervals) - 2 * Cardinality(DOMAIN timeouts)

\* The id of a new timer: the first one that no live timer has.
newId == SetMin((1..(MaxTimers + 1)) \ (DOMAIN intervals \cup DOMAIN timeouts))

\* d3.interval(callback, delay): the timer's delay, the time since its
\* start, and the time since its start at which it fires next.  With a
\* null delay it is a plain d3 timer, due at once and then on every frame.
interval(delay) ==
    [delay |-> delay, elapsed |-> 0,
     due |-> IF delay = NULL THEN 0 ELSE Period(delay)]

\* registerRotation(delay, speed): the fields and the new interval timer.
\* The timer that this._rotationTimer held, if any, is not stopped.
registerRotation(delay, speed) ==
    /\ _rotationDelay' = delay
    /\ _rotationSpeed' = speed
    /\ _tprev' = 0
    /\ _rotationTimer' = newId
    /\ intervals' = (newId :> interval(delay)) @@ intervals

\* The page calls registerRotation(delay, speed).
RegisterRotation(delay, speed) ==
    /\ NoJobQueued
    /\ FlushDone
    /\ Budget >= 1
    /\ registerRotation(delay, speed)
    /\ regDelay' = delay
    /\ regSpeed' = speed
    /\ lastOp' = "registerRotation"
    /\ UNCHANGED <<staticVars, _size, projVars, renderVars, _locations,
                   _rotationResumeTimer, timeouts, activeDrags,
                   lastK4, sinceEnd, stoppedByDrag>>

\* r[0] += this._rotationSpeed * dt; a null speed counts as 0.
tickRotation(r, speed, dt) ==
    <<r[1] + (IF speed = NULL THEN 0 ELSE ExactDiv(speed * dt, 1000)),
      r[2], r[3]>>

\* An interval timer fires: _timerCallback(t), t the time since its start.
TimerTick(id) ==
    /\ NoJobQueued
    /\ id \in DOMAIN intervals
    /\ intervals[id].elapsed >= intervals[id].due
    /\ LET t  == intervals[id].elapsed
           dt == t - _tprev
           r  == rotate(tickRotation(rotation, _rotationSpeed, dt))
           drawn == _recalculate(pathD, markers, _locations, r, scale8, _size)
       IN  /\ rotation' = r
           /\ pathD' = drawn[1]
           /\ markers' = drawn[2]
           /\ _tprev' = t
    /\ intervals' = [intervals EXCEPT
                        ![id].due = intervals[id].due + Period(intervals[id].delay)]
    /\ lastOp' = "tick"
    /\ UNCHANGED <<staticVars, _size, scale8, _locations, _rotationTimer,
                   _rotationDelay, _rotationSpeed, _rotationResumeTimer,
                   timeouts, activeDrags>>
    /\ NoGhostChange

\* The time measured since the last drag end stops counting here.
SinceEndCap == _ROTATION_RESUME_TIMEOUT + SetMin(TimeSteps)

\* The clock moves on by d; no timer is left behind (a due timer fires
\* before the clock moves again).
Advance(d) ==
    /\ NoJobQueued
    /\ FlushDone
    /\ \A id \in DOMAIN intervals :
          /\ intervals[id].elapsed + d <= intervals[id].due
          /\ intervals[id].elapsed + d <= MaxElapsed
    /\ \A id \in DOMAIN timeouts : timeouts[id] >= d
    /\ intervals' = [id \in DOMAIN intervals |->
                        [intervals[id] EXCEPT !.elapsed = @ + d]]
    /\ timeouts' = [id \in DOMAIN timeouts |-> timeouts[id] - d]
    /\ sinceEnd' = IF sinceEnd = NULL THEN NULL
                   ELSE IF sinceEnd + d > SinceEndCap THEN SinceEndCap
                   ELSE sinceEnd + d
    /\ lastOp' = "advance"
    /\ UNCHANGED <<staticVars, _size, projVars, renderVars, _locations,
                   _rotationTimer, _rotationDelay, _rotationSpeed, _tprev,
                   _rotationResumeTimer, activeDrags, lastK4,
                   ghostRegVars>>

\* ------------------------------------------------------------------ drag

\* The "start" handler of enableDrag: stops the rotation timer and the
\* resume timer that the fields hold.
DragStart ==
    /\ NoJobQueued
    /\ FlushDone
    /\ activeDrags < MaxGestures
    /\ activeDrags' = activeDrags + 1
    /\ intervals' = IF _rotationTimer # NULL
                    THEN Without(intervals, _rotationTimer) ELSE intervals
    /\ _rotationTimer' = NULL
    /\ timeouts' = IF _rotationResumeTimer # NULL
                   THEN Without(timeouts, _rotationResumeTimer) ELSE timeouts
    /\ _rotationResumeTimer' = NULL
    /\ stoppedByDrag' = (stoppedByDrag \/ _rotationTimer # NULL)
    /\ sinceEnd' = NULL
    /\ lastOp' = "dragStart"
    /\ UNCHANGED <<staticVars, _size, projVars, renderVars, _locations,
                   _rotationDelay, _rotationSpeed, _tprev,
                   lastK4, regDelay, regSpeed>>

\* A "drag" handler that passes projection.rotate two angles only.
dragRotationTwoAngles(x, y, r, sc8, size) ==
    <<ExactDiv(x * _ROTATION_SENSITIVITY * size * 8, 100 * sc8),
      ExactDiv((-y) * _ROTATION_SENSITIVITY * size * 8, 100 * sc8)>>

\* The rotation the "drag" handler sets: c = sensitivity / scale * size,
\* [event.x * c, -event.y * c, r[2]].
dragRotation(x, y, r, sc8, size) ==
    <<ExactDiv(x * _ROTATION_SENSITIVITY * size * 8, 100 * sc8),
      ExactDiv((-y) * _ROTATION_SENSITIVITY * size * 8, 100 * sc8),
      r[3]>>

\* The "drag" handler of enableDrag.
Drag(x, y) ==
    /\ NoJobQueued
    /\ FlushDone
    /\ activeDrags > 0
    /\ LET r == rotate(dragRotation(x, y, rotation, scale8, _size))
           drawn == _recalculate(pathD, markers, _locations, r, scale8, _size)
       IN  /\ rotation' = r
           /\ pathD' = drawn[1]
           /\ markers' = drawn[2]
    /\ lastOp' = "drag"
    /\ UNCHANGED <<staticVars, _size, scale8, _locations, activeDrags>>
    /\ NoTimerChange
    /\ NoGhostChange

\* A resume timeout of twice the delay.
resumeDelayTwice == 2 * _ROTATION_RESUME_TIMEOUT

\* The delay of the resume timeout the "end" handler creates.
resumeDelay == _ROTATION_RESUME_TIMEOUT

\* The "end" handler of enableDrag: creates the resume timeout.
DragEnd ==
    /\ NoJobQueued
    /\ FlushDone
    /\ activeDrags > 0
    /\ Budget >= 2
    /\ activeDrags' = activeDrags - 1
    /\ _rotationResumeTimer' = newId
    /\ timeouts' = (newId :> resumeDelay) @@ timeouts
    /\ sinceEnd' = 0
    /\ lastOp' = "dragEnd"
    /\ UNCHANGED <<staticVars, _size, projVars, renderVars, _locations,
                   _rotationTimer, _rotationDelay, _rotationSpeed, _tprev,
                   intervals, lastK4, ghostRegVars>>

\* A resume timeout fires: registerRotation with the stored delay and speed.
ResumeTimeout(id) ==
    /\ NoJobQueued
    /\ id \in DOMAIN timeouts
    /\ timeouts[id] <= 0
    /\ registerRotation(_rotationDelay, _rotationSpeed)
    /\ _rotationResumeTimer' = NULL
    /\ timeouts' = Without(timeouts, id)
    /\ lastOp' = "resume"
    /\ UNCHANGED <<staticVars, _size, projVars, renderVars, _locations,
                   activeDrags>>
    /\ NoGhostChange

\* ------------------------------------------------------------------ zoom

\* d3.zoom().scaleExtent([0.75, 50]): the zoom factor of an event (times 4).
constrainK4(raw4) ==
    IF raw4 < ScaleExtentMin4 THEN ScaleExtentMin4
    ELSE IF raw4 > ScaleExtentMax4 THEN ScaleExtentMax4
    ELSE raw4

\* A "zoom" handler that multiplies the projection's current scale.
zoomScale8Cumulative(size, current8, k4) == ExactDiv(current8 * k4, 4)

\* The scale the "zoom" handler sets (times 8): size/2 * event.transform.k.
zoomScale8(size, current8, k4) == ExactDiv(InitialScale8(size) * k4, 4)

\* The "zoom" handler of enableZoom.
Zoom(raw4) ==
    /\ NoJobQueued
    /\ FlushDone
    /\ lastK4' = constrainK4(raw4)
    /\ scale8' = zoomScale8(_size, scale8, lastK4')
    /\ LET drawn == _recalculate(pathD, markers, _locations, rotation, scale8', _size)
       IN  /\ pathD' = drawn[1]
           /\ markers' = drawn[2]
    /\ lastOp' = "zoom"
    /\ UNCHANGED <<staticVars, _size, rotation, _locations, activeDrags,
                   sinceEnd, ghostRegVars>>
    /\ NoTimerChange

\* --------------------------------------------------------- specification

\* The rotation timer, the drag gestures and the resume timeout.
NextRotation ==
    \/ \E a \in RotationArgs : RegisterRotation(a[1], a[2])
    \/ \E id \in DOMAIN intervals : TimerTick(id)
    \/ \E d \in TimeSteps : Advance(d)
    \/ DragStart
    \/ \E x \in DragXY, y \in DragXY : Drag(x, y)
    \/ DragEnd
    \/ \E id \in DOMAIN timeouts : ResumeTimeout(id)

SpecRotation == Init /\ [][NextRotation]_vars

\* The same handlers on a page that calls registerRotation only while no
\* drag gesture is in progress.
NextIdleRegistration ==
    \/ /\ activeDrags = 0
       /\ \E a \in RotationArgs : RegisterRotation(a[1], a[2])
    \/ \E id \in DOMAIN intervals : TimerTick(id)
    \/ \E d \in TimeSteps : Advance(d)
    \/ DragStart
    \/ \E x \in DragXY, y \in DragXY : Drag(x, y)
    \/ DragEnd
    \/ \E id \in DOMAIN timeouts : ResumeTimeout(id)

SpecIdleRegistration == Init /\ [][NextIdleRegistration]_vars

\* The projection under every handler that reads or writes it.
NextProjection ==
    \/ NextRotation
    \/ \E rot \in Rotations : SetRotation(rot)
    \/ \E raw4 \in RawK4 : Zoom(raw4)

SpecProjection == Init /\ [][NextProjection]_vars

\* The asynchronous initialisation, with the projection changing under it.
NextInitialize ==
    \/ \E c \in 1..MaxGlobes : InitializeCall(c)
    \/ \E c \in 1..MaxGlobes : _initializeStaticAsync(c)
    \/ \E c \in 1..MaxGlobes : InitializeResume(c)
    \/ \E rot \in Rotations : SetRotation(rot)
    \/ \E raw4 \in RawK4 : Zoom(raw4)

SpecInitialize == Init /\ [][NextInitialize]_vars

\* What the globe followed draws: its paths and markers under drag, zoom
\* and timer tick, with the page registering the rotation when none is
\* running.
NextRender ==
    \/ InitializeCall(1)
    \/ _initializeStaticAsync(1)
    \/ InitializeResume(1)
    \/ \E rot \in Rotations : SetRotation(rot)
    \/ \E raw4 \in RawK4 : Zoom(raw4)
    \/ \E coord \in Coordinates : AddPoint(coord)
    \/ \E a \in RotationArgs :
          intervals = <<>> /\ RegisterRotation(a[1], a[2])
    \/ \E id \in DOMAIN intervals : TimerTick(id)
    \/ \E d \in TimeSteps : Advance(d)
    \/ DragStart
    \/ \E x \in DragXY, y \in DragXY : Drag(x, y)

SpecRender == Init /\ [][NextRender]_vars

\* Every operation.
Next ==
    \/ NextInitialize
    \/ NextRender
    \/ NextProjection

Spec == Init /\ [][Next]_vars

\* ---------------------------------------------------------------- claims

\* The handlers after which everything is drawn again.
RedrawOps == {"drag", "zoom", "tick"}

\* Whether the point at coordinates faces the viewer under the rotation rot:
\* the cosine of its angular distance from the point at the centre of the
\* view (the depth of the rotated point) is not negative.
FrontFacing(coordinates, rot) ==
    LET x == CosDeg(coordinates[1] + rot[1]) * CosDeg(coordinates[2])
        z == SinDeg(coordinates[2])
    IN  x * CosDeg(rot[2]) - z * SinDeg(rot[2]) >= 0

PathsCurrent == \A e \in DOMAIN pathD : pathD[e] = _path(rotation, scale8)

MarkersCurrent ==
    /\ DOMAIN markers = DOMAIN _locations
    /\ \A i \in DOMAIN markers :
          /\ markers[i].cx = projection(_locations[i], rotation, scale8, _size)[1]
          /\ markers[i].cy = projection(_locations[i], rotation, scale8, _size)[2]
          /\ markers[i].fill = markerFill(_locations[i], rotation)

\* C1: after a drag event, a zoom event or a rotation timer tick, every path
\* of the map and every marker is drawn from the projection's current
\* rotation and scale.
C1_RedrawnAfterHandler == lastOp \in RedrawOps => (PathsCurrent /\ MarkersCurrent)

\* C1 witness: a timer tick has turned a globe whose water, country and
\* marker are drawn.
C1_Witness ==
    /\ lastOp = "tick"
    /\ rotation # <<0, 0, 0>>
    /\ <<"water", 1>> \in DOMAIN pathD
    /\ <<"land", 1>> \in DOMAIN pathD
    /\ Len(markers) >= 1

\* C2: while a drag gesture is between its start and its end, no rotation
\* timer tick turns the globe: the handler that ran last is never a tick.
C2_NeverDraggingAndRotating == activeDrags > 0 => lastOp # "tick"

\* C3: at most one rotation interval timer runs, and this._rotationTimer is
\* non-null exactly when one runs.
C3_AtMostOneRotationTimer ==
    /\ Cardinality(DOMAIN intervals) <= 1
    /\ (_rotationTimer # NULL) = (DOMAIN intervals # {})

\* The rotation runs with delay d and speed v.
RotationRunning(d, v) ==
    /\ _rotationTimer # NULL
    /\ _rotationTimer \in DOMAIN intervals
    /\ intervals[_rotationTimer].delay = d
    /\ _rotationSpeed = v

\* C4: when a drag start has stopped the rotation registered with delay d
\* and speed v, and more than _ROTATION_RESUME_TIMEOUT ms have passed since
\* the drag end with no drag start, the rotation runs with delay d and
\* speed v.
C4_RotationResumes ==
    (stoppedByDrag /\ sinceEnd # NULL /\ sinceEnd > _ROTATION_RESUME_TIMEOUT)
        => RotationRunning(regDelay, regSpeed)

\* C4 witness: the rotation registered with 5000 ms and 0.072 degrees per ms
\* runs again, the timeout after the drag end having passed.
C4_Witness ==
    /\ stoppedByDrag
    /\ sinceEnd # NULL
    /\ sinceEnd > _ROTATION_RESUME_TIMEOUT
    /\ regDelay = 5000
    /\ RotationRunning(5000, 72)

C6_StaticDataLoadedOnce == fetches <= 1 /\ assigns <= 1

\* C7: the scale is always between 0.375 * size and 25 * size; a zoom event
\* with factor k sets it to size/2 * k, 0.75 <= k <= 50, and changes neither
\* the rotation nor the rotation and resume timers.
C7_ZoomBounded ==
    [][/\ 3 * _size' <= scale8'
       /\ scale8' <= 200 * _size'
       /\ lastOp' = "zoom" =>
            /\ 4 * scale8' = InitialScale8(_size') * lastK4'
            /\ ScaleExtentMin4 <= lastK4'
            /\ lastK4' <= ScaleExtentMax4
            /\ rotation' = rotation
            /\ UNCHANGED timerVars]_vars

\* C7 witness: a zoom event constrained to the upper bound, on a turned
\* globe whose rotation timer runs.
C7_Witness ==
    /\ lastOp = "zoom"
    /\ lastK4 = ScaleExtentMax4
    /\ scale8 = 200 * _size
    /\ rotation # <<0, 0, 0>>
    /\ DOMAIN intervals # {}

\* The handlers that draw the markers.
MarkerOps == RedrawOps \cup {"addPoint"}

\* C8: after the markers are drawn, a marker is shown (fill "tomato")
\* exactly when its location is on the visible hemisphere, the rim included
\* (its great-circle distance from the point at the centre of the view is
\* at most pi/2); else its fill is "none".
C8_MarkerShownIffVisible ==
    lastOp \in MarkerOps =>
        \A i \in DOMAIN markers :
            /\ (markers[i].fill = "tomato") = FrontFacing(_locations[i], rotation)
            /\ (markers[i].fill = "none") = ~FrontFacing(_locations[i], rotation)

====
